---- MODULE Spec2Model ----
(***************************************************************************)
(* Model of the apache-httpd charm (src/src/charm.py): the handlers of     *)
(* class Charm, its StoredState and the external commands it issues.       *)
(*                                                                         *)
(* The operator framework dispatches one event at a time, so a handler     *)
(* runs to completion before the next one starts (pc = "idle").  Inside a  *)
(* handler every loop iteration is one step, which makes the intermediate  *)
(* points of a reconciliation pass visible.  `log' is the sequence of      *)
(* external commands (with their exit status) of the handler that runs or  *)
(* has just ended (pc = "done"); it is cleared when the dispatch ends.     *)
(***************************************************************************)
EXTENDS Integers, Sequences, FiniteSets, TLC

\* ------------------------------------------------------------------ bounds
MaxModules == 3
MaxVhosts == 2
MaxDeferred == 1

\* --------------------------------------------------------------- constants
\* ModuleState: the exit codes of a2query -m
Found == 0
NotFound == 1
OffByAdmin == 32
OffByMaintainer == 33
ModuleState == {Found, NotFound, OffByAdmin, OffByMaintainer}

\* what subprocess.call(['a2query', '-m', m]) returns: a2query -m exits with
\* one of the codes of ModuleState
A2QueryCodes == ModuleState

\* exit status of an external command: 0 is success
ExitCodes == {0, 1}

HTTPD_SERVICE_NAME == "apache2"

SYSTEMCTL_COMMANDS == {"start", "stop", "restart", "reload", "daemon-reload", "disable", "enable"}

ModuleNames == <<"ssl", "headers", "rewrite", "status", "deflate">>

Modules == {ModuleNames[i] : i \in 1..MaxModules}

\* config['server_name']
ServerNames == {"web"}

Ports == {80, 8080}

\* base64 texts a vhost can carry as its template
Templates == {"TGlzdGVuIDgw", "TGlzdGVuIDgwODA="}

VhostSpecs == [template : Templates, port : Ports]

SeqsUpTo(S, n) == UNION {[1..k -> S] : k \in 0..n}

\* relation.data[app].get('vhosts'): absent (None), the empty string, or a
\* YAML text that holds a list of vhosts
Payloads ==
    {[kind |-> "absent", items |-> <<>>], [kind |-> "empty", items |-> <<>>]}
        \cup {[kind |-> "yaml", items |-> s] : s \in SeqsUpTo(VhostSpecs, MaxVhosts)}

NoPayload == [kind |-> "absent", items |-> <<>>]

\* the event of a handler that reads neither event.unit nor the relation
NoEvent == [unit |-> FALSE, payload |-> NoPayload, redelivered |-> FALSE]

\* ------------------------------------------------------------------- state
VARIABLES
    state,              \* Charm.state (StoredState): attribute name -> value
    unit_status,        \* framework.model.unit.status
    deferred,           \* deferred vhost events awaiting re-delivery (event.unit of each)
    last_service_event, \* the last systemctl command or probe that succeeded on the unit
    handler,            \* the handler that is running or ran last
    event,              \* the event of on_vhost_config_relation_changed: unit and relation data
    pc,                 \* position of the handler that is running, or "idle"
    outcome,            \* how the last handler ended: "returned" or the exception raised
    log,                \* commands issued by the current (or last) handler
    base_modules,       \* on_config_changed: _current_modules on entry
    base_ready,         \* on_config_changed: state.ready on entry ("unset" when not stored)
    config_modules,     \* on_config_changed: config_modules
    modules_to_disable, \* on_config_changed: modules_to_disable not yet iterated
    changed_modules,    \* on_config_changed: changed_modules
    modules_to_enable,  \* on_config_changed: config_modules not yet iterated
    server_name,        \* on_vhost_config_relation_changed: config['server_name']
    vhosts,             \* on_vhost_config_relation_changed: vhosts
    vhost_index,        \* on_vhost_config_relation_changed: vhosts iterated so far
    unrestarted,        \* history: the desired set of a pass that toggled modules and
                        \* aborted before a restart, until the next pass takes it up
    retry               \* history: the running pass is the next pass after such an
                        \* abort and has the same desired set

vars == <<state, unit_status, deferred, last_service_event, handler, event, pc, outcome, log,
          base_modules, config_modules, modules_to_disable, changed_modules,
          modules_to_enable, server_name, vhosts, vhost_index, base_ready,
          unrestarted, retry>>

cc_locals == <<base_modules, base_ready, config_modules, modules_to_disable, changed_modules,
               modules_to_enable>>

vh_locals == <<server_name, vhosts, vhost_index>>

\* no toggles are waiting for a restart
NoUnrestarted == [pending |-> FALSE, desired |-> {}]

\* ----------------------------------------------------------------- helpers
\* one external effect of a handler
Cmd(c, a, d, rc) == [cmd |-> c, arg |-> a, data |-> d, rc |-> rc]

\* StoredState: an attribute exists once it has been assigned
HasAttr(a) == a \in DOMAIN state

SetAttr(s, a, v) == [x \in (DOMAIN s) \cup {a} |-> IF x = a THEN v ELSE s[x]]

\* base64.b64decode(template).decode('utf-8')
B64Decode(t) ==
    CASE t = "TGlzdGVuIDgw" -> "Listen 80"
      [] t = "TGlzdGVuIDgwODA=" -> "Listen 8080"

\* str(port)
Str(p) ==
    CASE p = 80 -> "80"
      [] p = 8080 -> "8080"

\* a test for None in place of the truth value of the text
Truthy_NotNone(p) == p.kind # "absent"

\* bool(vhosts_serialized)
Truthy(p) == p.kind = "yaml"

\* yaml.safe_load(vhosts_serialized)
YamlSafeLoad(p) == p.items

\* create_vhost: the site name and the file written for it
VhostName(sn, port) == sn \o "_" \o Str(port)

VhostFile(name) == "/etc/apache2/sites-available/" \o name \o ".conf"

Init ==
    /\ state = <<>>
    /\ unit_status = "Unset"
    /\ deferred = <<>>
    /\ last_service_event = "none"
    /\ handler = "none"
    /\ event = NoEvent
    /\ pc = "idle"
    /\ outcome = "none"
    /\ log = <<>>
    /\ base_modules = {}
    /\ base_ready = "unset"
    /\ unrestarted = NoUnrestarted
    /\ retry = FALSE
    /\ config_modules = {}
    /\ modules_to_disable = {}
    /\ changed_modules = {}
    /\ modules_to_enable = {}
    /\ server_name = "web"
    /\ vhosts = <<>>
    /\ vhost_index = 0

\* the framework dispatches install first and once; every other event
\* follows it
Installed == HasAttr("current_modules")

\* every event is dispatched by a run of main(Charm): when the handler has
\* ended the run ends, and only the stored state, the unit status and the
\* deferred events outlive it
ClearConfigLocals ==
    /\ base_modules' = {}
    /\ base_ready' = "unset"
    /\ config_modules' = {}
    /\ modules_to_disable' = {}
    /\ changed_modules' = {}
    /\ modules_to_enable' = {}

ClearVhostLocals ==
    /\ server_name' = "web"
    /\ vhosts' = <<>>
    /\ vhost_index' = 0

dispatch_end ==
    /\ pc = "done"
    /\ pc' = "idle"
    /\ handler' = "none"
    /\ event' = NoEvent
    /\ outcome' = "none"
    /\ log' = <<>>
    /\ ClearConfigLocals
    /\ ClearVhostLocals
    /\ UNCHANGED <<state, unit_status, deferred, last_service_event>>

\* --------------------------------------------------- toggles and systemctl
\* result of a call: the commands it ran and the exception it raised, if any
Result(cmds, exc) == [cmds |-> cmds, exc |-> exc]

\* _disable_module with the already-disabled states treated as a failure
disable_module_OffIsError(m, code, rc) ==
    LET query == Cmd("a2query", m, "", code) IN
    IF code \notin ModuleState
      THEN Result(<<query>>, "ValueError")
    ELSE IF code = Found
      THEN Result(<<query, Cmd("a2dismod", m, "", rc)>>,
                  IF rc # 0 THEN "ApacheModuleDisableException" ELSE "none")
    ELSE Result(<<query>>, "ApacheModuleDisableException")

\* _disable_module with every state but Found treated as already disabled
disable_module_NotFoundIsOff(m, code, rc) ==
    LET query == Cmd("a2query", m, "", code) IN
    IF code \notin ModuleState
      THEN Result(<<query>>, "ValueError")
    ELSE IF code = Found
      THEN Result(<<query, Cmd("a2dismod", m, "", rc)>>,
                  IF rc # 0 THEN "ApacheModuleDisableException" ELSE "none")
    ELSE Result(<<query>>, "none")

\* _disable_module with a failed a2dismod taken as a success
disable_module_SwallowFailure(m, code, rc) ==
    LET query == Cmd("a2query", m, "", code) IN
    IF code \notin ModuleState
      THEN Result(<<query>>, "ValueError")
    ELSE IF code = Found
      THEN Result(<<query, Cmd("a2dismod", m, "", rc)>>, "none")
    ELSE IF code \in {OffByAdmin, OffByMaintainer}
      THEN Result(<<query>>, "none")
    ELSE Result(<<query>>, "ApacheModuleDisableException")

\* _get_module_state followed by the branches of _disable_module;
\* code is what a2query returns, rc what a2dismod returns when it is run
disable_module(m, code, rc) ==
    LET query == Cmd("a2query", m, "", code) IN
    IF code \notin ModuleState
      THEN Result(<<query>>, "ValueError")
    ELSE IF code = Found
      THEN Result(<<query, Cmd("a2dismod", m, "", rc)>>,
                  IF rc # 0 THEN "ApacheModuleDisableException" ELSE "none")
    ELSE IF code \in {OffByAdmin, OffByMaintainer}
      THEN Result(<<query>>, "none")
    ELSE Result(<<query>>, "ApacheModuleDisableException")

\* _enable_module: a2enmod is run whatever the state of the module
enable_module(m, rc) ==
    Result(<<Cmd("a2enmod", m, "", rc)>>,
           IF rc # 0 THEN "ApacheModuleEnableException" ELSE "none")

\* _enable_site with a failed a2ensite taken as a success
enable_site_SwallowFailure(site, rc) ==
    Result(<<Cmd("a2ensite", site, "", rc)>>, "none")

\* _enable_site
enable_site(site, rc) ==
    Result(<<Cmd("a2ensite", site, "", rc)>>,
           IF rc # 0 THEN "ApacheSiteEnableException" ELSE "none")

\* _disable_site
disable_site(site, rc) ==
    Result(<<Cmd("a2dissite", site, "", rc)>>,
           IF rc # 0 THEN "ApacheSiteDisableException" ELSE "none")

\* apt_install with a sequence of packages and the default options
apt_install(packages, rc) ==
    Result(<<Cmd("apt-get", packages[1], "", rc)>>,
           IF rc # 0 THEN "CalledProcessError" ELSE "none")

\* _systemd_unit_command
systemd_unit_command(command, name, rc) ==
    IF command \in SYSTEMCTL_COMMANDS
      THEN Result(<<Cmd("systemctl", command, name, rc)>>,
                  IF rc # 0 THEN "SystemctlCommandException" ELSE "none")
      ELSE Result(<<>>, "NotImplementedError")

\* the service event a successful systemctl command leaves behind:
\* last_service_event is the last stop or restart that succeeded or readiness
\* probe, whichever came last (start and reload leave it alone)
ServiceEventAfter(res, command, before) == IF res.exc = "none" THEN command ELSE before

\* --------------------------------------------------------------- on_install
on_install ==
    /\ pc = "idle"
    /\ ~Installed
    /\ handler' = "on_install"
    /\ event' = NoEvent
    /\ state' = SetAttr(state, "current_modules", {})
    /\ \E apt \in ExitCodes :
       \E dis \in IF apt = 0 THEN ExitCodes ELSE {0} :
         LET inst == apt_install(<<"apache2">>, apt)
             res == IF inst.exc # "none" THEN Result(<<>>, inst.exc)
                    ELSE disable_site("000-default.conf", dis)
         IN
         /\ log' = inst.cmds \o res.cmds
         /\ outcome' = IF res.exc # "none" THEN res.exc ELSE "returned"
    /\ pc' = "done"
    /\ UNCHANGED <<unit_status, deferred, last_service_event, cc_locals, vh_locals>>

\* ------------------------------------------------------ on_start, on_stop
on_start ==
    /\ pc = "idle"
    /\ Installed
    /\ \E rc \in ExitCodes :
         LET res == systemd_unit_command("start", HTTPD_SERVICE_NAME, rc) IN
         /\ handler' = "on_start"
         /\ event' = NoEvent
         /\ log' = res.cmds
         /\ outcome' = IF res.exc # "none" THEN res.exc ELSE "returned"
    /\ pc' = "done"
    /\ UNCHANGED <<state, unit_status, deferred, last_service_event, cc_locals, vh_locals>>

on_stop ==
    /\ pc = "idle"
    /\ Installed
    /\ \E rc \in ExitCodes :
         LET res == systemd_unit_command("stop", HTTPD_SERVICE_NAME, rc) IN
         /\ handler' = "on_stop"
         /\ event' = NoEvent
         /\ log' = res.cmds
         /\ outcome' = IF res.exc # "none" THEN res.exc ELSE "returned"
         /\ last_service_event' = ServiceEventAfter(res, "stop", last_service_event)
    /\ pc' = "done"
    /\ UNCHANGED <<state, unit_status, deferred, cc_locals, vh_locals>>

\* ------------------------------------------------------- on_config_changed
\* changed_modules that misses the modules to disable
ChangedModules_OnlyNew(cur, cfg) == cfg \ cur

\* an enable that is not recorded in _current_modules
AddModule_Forgotten(cur, m) == cur

\* the enable loop placed before the disable loop
AfterLoops_EnableFirst(todis, toen) ==
    IF toen # {} THEN "enable" ELSE IF todis # {} THEN "disable" ELSE "restart"

\* an enable that sets _current_modules to the desired set
AddModule_Wholesale(cur, m) == config_modules

\* modules_to_disable = _current_modules - config_modules
ModulesToDisable(cur, cfg) == cur \ cfg

\* changed_modules = _current_modules ^ config_modules
ChangedModules(cur, cfg) == (cur \ cfg) \cup (cfg \ cur)

\* _current_modules.remove(m) and _current_modules.add(m)
RemoveModule(cur, m) == cur \ {m}

AddModule(cur, m) == cur \cup {m}

\* where the pass continues once the two loops have nothing left
AfterLoops(todis, toen) ==
    IF todis # {} THEN "disable" ELSE IF toen # {} THEN "enable" ELSE "restart"

\* state.ready as a text
ReadyText ==
    IF ~HasAttr("ready") THEN "unset" ELSE IF state.ready THEN "true" ELSE "false"

\* entry of the handler up to the first loop
on_config_changed ==
    /\ pc = "idle"
    /\ Installed
    /\ \E cfg \in SUBSET Modules :
         LET cur == state.current_modules IN
         /\ base_modules' = cur
         /\ base_ready' = ReadyText
         /\ config_modules' = cfg
         /\ modules_to_disable' = ModulesToDisable(cur, cfg)
         /\ changed_modules' = ChangedModules(cur, cfg)
         /\ modules_to_enable' = cfg
         /\ pc' = AfterLoops(ModulesToDisable(cur, cfg), cfg)
    /\ handler' = "on_config_changed"
    /\ event' = NoEvent
    /\ log' = <<>>
    /\ outcome' = "running"
    /\ UNCHANGED <<state, unit_status, deferred, last_service_event, vh_locals>>

\* one iteration of `for m in modules_to_disable' (a set: any order)
disable_step ==
    /\ pc = "disable"
    /\ \E m \in modules_to_disable, code \in A2QueryCodes :
       \E rc \in IF code = Found THEN ExitCodes ELSE {0} :
         LET res == disable_module(m, code, rc) IN
         /\ log' = log \o res.cmds
         /\ IF res.exc = "none"
              THEN /\ state' = [state EXCEPT !.current_modules = RemoveModule(@, m)]
                   /\ modules_to_disable' = modules_to_disable \ {m}
                   /\ pc' = AfterLoops(modules_to_disable \ {m}, modules_to_enable)
                   /\ outcome' = outcome
              ELSE /\ pc' = "done"
                   /\ outcome' = res.exc
                   /\ UNCHANGED <<state, modules_to_disable>>
    /\ UNCHANGED <<unit_status, deferred, last_service_event, handler, event,
                   base_modules, base_ready, config_modules, changed_modules,
                   modules_to_enable, vh_locals>>

\* one iteration of `for m in config_modules' (a set: any order)
enable_step ==
    /\ pc = "enable"
    /\ \E m \in modules_to_enable, rc \in ExitCodes :
         LET res == enable_module(m, rc) IN
         /\ log' = log \o res.cmds
         /\ IF res.exc = "none"
              THEN /\ state' = [state EXCEPT !.current_modules = AddModule(@, m)]
                   /\ modules_to_enable' = modules_to_enable \ {m}
                   /\ pc' = AfterLoops(modules_to_disable, modules_to_enable \ {m})
                   /\ outcome' = outcome
              ELSE /\ pc' = "done"
                   /\ outcome' = res.exc
                   /\ UNCHANGED <<state, modules_to_enable>>
    /\ UNCHANGED <<unit_status, deferred, last_service_event, handler, event,
                   base_modules, base_ready, config_modules, modules_to_disable,
                   changed_modules, vh_locals>>

\* a restart at the end of every pass
RestartNeeded_Always(changed) == TRUE

\* whether the pass restarts the service: `if changed_modules'
RestartNeeded(changed) == changed # {}

\* _is_systemd_unit_active: systemctl is-active returns 0 for an active unit
is_systemd_unit_active(rc) == rc = 0

\* _assess_readiness that emits only when ready was not true already
assess_readiness_EdgeTriggered(rc) ==
    LET probe == Cmd("is-active", HTTPD_SERVICE_NAME, "", rc) IN
    IF is_systemd_unit_active(rc)
      THEN [cmds |-> IF HasAttr("ready") /\ state.ready
                       THEN <<probe>>
                       ELSE <<probe, Cmd("emit", "apache_ready", "", 0)>>,
            ready |-> TRUE]
      ELSE [cmds |-> <<probe>>, ready |-> FALSE]

\* _assess_readiness, with on_apache_ready run by the emit; rc is the exit
\* status of systemctl is-active
assess_readiness(rc) ==
    LET probe == Cmd("is-active", HTTPD_SERVICE_NAME, "", rc) IN
    IF is_systemd_unit_active(rc)
      THEN [cmds |-> <<probe, Cmd("emit", "apache_ready", "", 0)>>, ready |-> TRUE]
      ELSE [cmds |-> <<probe>>, ready |-> FALSE]

\* on_apache_ready
on_apache_ready(status) == "Active"

\* the end of the pass: the restart decision and the readiness assessment
restart_step ==
    /\ pc = "restart"
    /\ \E rc \in IF RestartNeeded(changed_modules) THEN ExitCodes ELSE {0} :
       \E probe \in IF rc = 0 THEN ExitCodes ELSE {0} :
         LET res == IF RestartNeeded(changed_modules)
                      THEN systemd_unit_command("restart", HTTPD_SERVICE_NAME, rc)
                      ELSE Result(<<>>, "none")
             ass == assess_readiness(probe)
             restarted == IF RestartNeeded(changed_modules)
                            THEN ServiceEventAfter(res, "restart", last_service_event)
                            ELSE last_service_event
         IN
         IF res.exc # "none"
           THEN /\ log' = log \o res.cmds
                /\ outcome' = res.exc
                /\ last_service_event' = restarted
                /\ UNCHANGED <<state, unit_status>>
           ELSE /\ log' = log \o res.cmds \o ass.cmds
                /\ outcome' = "returned"
                /\ state' = SetAttr(state, "ready", ass.ready)
                /\ last_service_event' = IF ass.ready THEN "probe_active" ELSE "probe_inactive"
                /\ unit_status' = IF ass.ready THEN on_apache_ready(unit_status) ELSE unit_status
    /\ pc' = "done"
    /\ UNCHANGED <<deferred, handler, event, cc_locals, vh_locals>>

\* ---------------------------------------- on_vhost_config_relation_changed
\* create_vhost(server_name, template, port) with protocol None: the file
\* write; wrc # 0 stands for write_text raising
create_vhost(sn, template, port, wrc) ==
    LET vhost_name == VhostName(sn, port) IN
    [name |-> vhost_name,
     cmds |-> <<Cmd("write", VhostFile(vhost_name), B64Decode(template), wrc)>>,
     exc |-> IF wrc # 0 THEN "OSError" ELSE "none"]

\* the gates with a plain return where the code defers
Gate_DropWhenNotReady(unit, payload) ==
    IF ~HasAttr("ready") THEN "AttributeError"
    ELSE IF ~state.ready THEN "no_unit"
    ELSE IF ~unit THEN "no_unit"
    ELSE IF ~Truthy(payload) THEN "no_vhosts"
    ELSE "apply"

\* the gates with a deferral where the code skips an event without a peer
Gate_DeferAtPeer(unit, payload) ==
    IF ~HasAttr("ready") THEN "AttributeError"
    ELSE IF ~state.ready THEN "defer"
    ELSE IF ~unit THEN "defer"
    ELSE IF ~Truthy(payload) THEN "no_vhosts"
    ELSE "apply"

\* the gates with the peer checked before readiness
Gate_PeerFirst(unit, payload) ==
    IF ~unit THEN "no_unit"
    ELSE IF ~HasAttr("ready") THEN "AttributeError"
    ELSE IF ~state.ready THEN "defer"
    ELSE IF ~Truthy(payload) THEN "no_vhosts"
    ELSE "apply"

\* the three gates of the handler, in the order of the code: what the
\* handler does with an event whose unit is `unit' and whose relation data
\* holds `payload'
Gate(unit, payload) ==
    IF ~HasAttr("ready") THEN "AttributeError"
    ELSE IF ~state.ready THEN "defer"
    ELSE IF ~unit THEN "no_unit"
    ELSE IF ~Truthy(payload) THEN "no_vhosts"
    ELSE "apply"

\* the handler from its entry to the loop, for an event that is new
\* (redelivered = FALSE) or the oldest deferred one
handle_vhost_event(unit, payload, sn, redelivered) ==
    LET gate == Gate(unit, payload)
        rest == IF redelivered THEN Tail(deferred) ELSE deferred
    IN
    /\ handler' = "on_vhost_config_relation_changed"
    /\ event' = [unit |-> unit, payload |-> payload, redelivered |-> redelivered]
    /\ log' = IF gate = "defer" THEN <<Cmd("defer", "vhost_config_relation_changed", "", 0)>>
              ELSE <<>>
    /\ deferred' = IF gate = "defer" THEN Append(rest, unit) ELSE rest
    /\ outcome' = IF gate = "AttributeError" THEN "AttributeError"
                  ELSE IF gate = "apply" THEN "running"
                  ELSE "returned"
    /\ IF gate = "apply"
         THEN /\ vhosts' = YamlSafeLoad(payload)
              /\ server_name' = sn
              /\ vhost_index' = 0
              /\ pc' = IF Len(YamlSafeLoad(payload)) = 0 THEN "reload" ELSE "sites"
         ELSE /\ pc' = "done"
              /\ UNCHANGED vh_locals
    /\ UNCHANGED <<state, unit_status, last_service_event, cc_locals>>

\* a new event from the relation
on_vhost_config_relation_changed ==
    /\ pc = "idle"
    /\ Installed
    /\ Len(deferred) < MaxDeferred
    /\ \E unit \in BOOLEAN, sn \in ServerNames :
       \E payload \in Payloads :
         handle_vhost_event(unit, payload, sn, FALSE)

\* the framework delivers a deferred event again
redeliver_vhost_event ==
    /\ pc = "idle"
    /\ deferred # <<>>
    /\ \E payload \in Payloads, sn \in ServerNames :
         handle_vhost_event(Head(deferred), payload, sn, TRUE)

\* the vhosts taken from the end of the list
NextVhost_Reversed(vs, i) == vs[Len(vs) - i]

\* the element the loop `for vhost in vhosts' takes after i iterations
NextVhost(vs, i) == vs[i + 1]

\* one iteration of `for vhost in vhosts': create_vhost, then _enable_site
site_step ==
    /\ pc = "sites"
    /\ \E wrc \in ExitCodes :
       \E rc \in IF wrc = 0 THEN ExitCodes ELSE {0} :
         LET vhost == NextVhost(vhosts, vhost_index)
             file == create_vhost(server_name, vhost.template, vhost.port, wrc)
             res == IF file.exc # "none" THEN Result(<<>>, file.exc)
                    ELSE enable_site(file.name, rc)
         IN
         /\ log' = log \o file.cmds \o res.cmds
         /\ IF res.exc = "none"
              THEN /\ vhost_index' = vhost_index + 1
                   /\ pc' = IF vhost_index + 1 = Len(vhosts) THEN "reload" ELSE "sites"
                   /\ outcome' = outcome
              ELSE /\ pc' = "done"
                   /\ outcome' = res.exc
                   /\ UNCHANGED vhost_index
    /\ UNCHANGED <<state, unit_status, deferred, last_service_event, handler, event,
                   cc_locals, server_name, vhosts>>

\* the reload that ends the handler
reload_step ==
    /\ pc = "reload"
    /\ \E rc \in ExitCodes :
         LET res == systemd_unit_command("reload", HTTPD_SERVICE_NAME, rc) IN
         /\ log' = log \o res.cmds
         /\ outcome' = IF res.exc # "none" THEN res.exc ELSE "returned"
    /\ pc' = "done"
    /\ UNCHANGED <<state, unit_status, deferred, last_service_event, handler, event,
                   cc_locals, vh_locals>>

\* ------------------------------------------------------------- histories
\* the history of unrestarted toggles is not kept
KeepHistory == UNCHANGED <<unrestarted, retry>>

\* the history of unrestarted toggles: a pass that changed _current_modules
\* and then raised leaves its desired set behind; the next pass takes it up
\* and is a retry when its desired set is the same
TrackHistory ==
    IF pc = "idle" /\ handler' = "on_config_changed"
      THEN /\ retry' = (unrestarted.pending /\ unrestarted.desired = config_modules')
           /\ unrestarted' = NoUnrestarted
    ELSE IF handler = "on_config_changed" /\ pc # "done" /\ pc' = "done"
            /\ outcome' # "returned"
      THEN /\ unrestarted' =
                IF retry \/ state'.current_modules # base_modules
                  THEN [pending |-> TRUE, desired |-> config_modules]
                  ELSE NoUnrestarted
           /\ retry' = retry
    ELSE IF pc = "done"
      THEN /\ retry' = FALSE
           /\ UNCHANGED unrestarted
    ELSE UNCHANGED <<unrestarted, retry>>

Next ==
    \/ on_install /\ KeepHistory
    \/ on_start /\ KeepHistory
    \/ on_stop /\ KeepHistory
    \/ on_config_changed /\ KeepHistory
    \/ disable_step /\ KeepHistory
    \/ enable_step /\ KeepHistory
    \/ restart_step /\ KeepHistory
    \/ on_vhost_config_relation_changed /\ KeepHistory
    \/ redeliver_vhost_event /\ KeepHistory
    \/ site_step /\ KeepHistory
    \/ reload_step /\ KeepHistory
    \/ dispatch_end /\ KeepHistory

Spec == Init /\ [][Next]_vars

\* the same steps with the history of unrestarted toggles
NextRetry ==
    \/ on_install /\ TrackHistory
    \/ on_start /\ TrackHistory
    \/ on_stop /\ TrackHistory
    \/ on_config_changed /\ TrackHistory
    \/ disable_step /\ TrackHistory
    \/ enable_step /\ TrackHistory
    \/ restart_step /\ TrackHistory
    \/ on_vhost_config_relation_changed /\ TrackHistory
    \/ redeliver_vhost_event /\ TrackHistory
    \/ site_step /\ TrackHistory
    \/ reload_step /\ TrackHistory
    \/ dispatch_end /\ TrackHistory

SpecRetry == Init /\ [][NextRetry]_vars

\* a step of the handler that is running, or the end of its dispatch (at
\* most one of them is enabled in a state)
HandlerStep ==
    \/ disable_step
    \/ enable_step
    \/ restart_step
    \/ site_step
    \/ reload_step
    \/ dispatch_end

\* a handler that has started runs to its end and the dispatch ends; the
\* framework delivers a deferred event again whenever it goes on dispatching
Fairness ==
    /\ WF_vars(HandlerStep /\ KeepHistory)
    /\ SF_vars(redeliver_vhost_event /\ KeepHistory)

FairSpec == Spec /\ Fairness

\* ------------------------------------------------------ reading the log
\* positions of the log that hold command c
Positions(c) == {i \in 1..Len(log) : log[i].cmd = c}

\* positions of the log that hold `systemctl command'
SystemctlPositions(command) ==
    {i \in 1..Len(log) : log[i].cmd = "systemctl" /\ log[i].arg = command}

ToggleCommands == {"a2query", "a2dismod", "a2enmod"}

TogglePositions == {i \in 1..Len(log) : log[i].cmd \in ToggleCommands}

\* a reconciliation pass that has ended
PassEnded == handler = "on_config_changed" /\ pc = "done"

\* a reconciliation pass that is running or has ended
InPass == handler = "on_config_changed"

\* the ready flag is set and true
Ready == HasAttr("ready") /\ state.ready

\* a step that delivers a vhost event, new or deferred, to its handler
VhostDelivery == pc = "idle" /\ handler' = "on_vhost_config_relation_changed"

\* ---------------------------------------------------------------------- C1
\* C1: when a reconciliation pass returns without raising, current_modules
\* is exactly the desired set D of that pass, whatever the applied set C it
\* started from.
C1_CurrentEqualsDesired ==
    (PassEnded /\ outcome = "returned") => state.current_modules = config_modules

\* the scenario C = {ssl, headers}, D = {headers, rewrite} has completed
C1_Witness ==
    /\ PassEnded
    /\ outcome = "returned"
    /\ base_modules = {"ssl", "headers"}
    /\ config_modules = {"headers", "rewrite"}
    /\ state.current_modules = {"headers", "rewrite"}

\* ---------------------------------------------------------------------- C2
\* C2: a pass whose toggles all succeed issues exactly one restart when the
\* symmetric difference of C and D is non-empty and none when it is empty;
\* the restart comes after every disable and enable of the pass.
C2_RestartIffChanged ==
    (PassEnded /\ outcome \in {"returned", "SystemctlCommandException"}) =>
        LET restarts == SystemctlPositions("restart")
            differ == (base_modules \ config_modules) \cup (config_modules \ base_modules)
        IN
        /\ Cardinality(restarts) = IF differ # {} THEN 1 ELSE 0
        /\ \A i \in restarts : \A j \in TogglePositions : j < i
        /\ \A i \in restarts : log[i].data = HTTPD_SERVICE_NAME

\* Reconcile of the empty set from a non-empty C: every module disabled,
\* one restart at the end of the toggles
C2_Witness ==
    /\ PassEnded
    /\ outcome = "returned"
    /\ base_modules # {}
    /\ config_modules = {}
    /\ Cardinality(SystemctlPositions("restart")) = 1
    /\ TogglePositions # {}

\* ---------------------------------------------------------------------- C3
\* C3 as stated: a pass with D = C runs no enable command, no disable
\* command and no restart.
C3_Original ==
    (PassEnded /\ outcome = "returned" /\ config_modules = base_modules) =>
        /\ Positions("a2enmod") = {}
        /\ Positions("a2query") = {}
        /\ Positions("a2dismod") = {}
        /\ SystemctlPositions("restart") = {}

\* C3 amended: a pass with D = C runs no disable command (no module probe
\* either) and no restart, and runs the enable command once for every
\* module of D, so it runs no enable command only when D is empty.
C3_NoDisableNoRestart ==
    (InPass /\ config_modules = base_modules) =>
        /\ Positions("a2query") = {}
        /\ Positions("a2dismod") = {}
        /\ SystemctlPositions("restart") = {}
        /\ (pc = "done" /\ outcome = "returned") =>
             /\ Cardinality(Positions("a2enmod")) = Cardinality(config_modules)
             /\ {log[i].arg : i \in Positions("a2enmod")} = config_modules

\* a pass with D = C, both non-empty, has completed
C3_Witness ==
    /\ PassEnded
    /\ outcome = "returned"
    /\ config_modules = base_modules
    /\ Cardinality(config_modules) >= 2
    /\ Cardinality(Positions("a2enmod")) = Cardinality(config_modules)

\* ---------------------------------------------------------------------- C4
\* C4: ready is true only when the last event that affected the service was
\* a probe that found it active; a stop or restart makes ready false until
\* readiness is assessed again.
C4_ReadyOnlyAfterActiveProbe ==
    Ready => last_service_event = "probe_active"

\* ---------------------------------------------------------------------- C5
\* C5: a vhost event that arrives while ready is false is deferred exactly
\* once; the handler writes no file, activates no site, reloads nothing and
\* leaves current_modules and ready as they were.
C5_DeferWhenNotReady ==
    [][(VhostDelivery /\ HasAttr("ready") /\ ~state.ready) =>
          /\ log' = <<Cmd("defer", "vhost_config_relation_changed", "", 0)>>
          /\ pc' = "done"
          /\ outcome' = "returned"
          /\ state' = state
          /\ deferred' # <<>>
          /\ deferred'[Len(deferred')] = event'.unit]_vars

\* an event has been deferred at the ready gate
C5_Witness ==
    /\ handler = "on_vhost_config_relation_changed"
    /\ pc = "done"
    /\ HasAttr("ready") /\ ~state.ready
    /\ Cardinality(Positions("defer")) = 1
    /\ deferred # <<>>

\* ---------------------------------------------------------------------- C6
\* C6: with ready true, a peer and N >= 1 vhosts, when every step succeeds
\* the handler writes and activates the vhosts one by one in input order
\* (write i, activate i), without reordering or deduplication, and issues
\* one reload after the last activation.
C6_WritesActivationsReload ==
    (/\ handler = "on_vhost_config_relation_changed"
     /\ pc = "done"
     /\ outcome = "returned"
     /\ Ready
     /\ event.unit
     /\ Truthy(event.payload)
     /\ Len(event.payload.items) >= 1) =>
        LET items == event.payload.items
            N == Len(items)
        IN
        /\ Len(log) = 2 * N + 1
        /\ \A i \in 1..N :
             /\ log[2 * i - 1].cmd = "write"
             /\ log[2 * i - 1].arg = VhostFile(VhostName(server_name, items[i].port))
             /\ log[2 * i - 1].data = B64Decode(items[i].template)
             /\ log[2 * i].cmd = "a2ensite"
             /\ log[2 * i].arg = VhostName(server_name, items[i].port)
        /\ log[2 * N + 1] = Cmd("systemctl", "reload", HTTPD_SERVICE_NAME, 0)

\* a batch of two different vhosts has been applied
C6_Witness ==
    /\ handler = "on_vhost_config_relation_changed"
    /\ pc = "done"
    /\ outcome = "returned"
    /\ Ready
    /\ event.unit
    /\ Len(event.payload.items) = 2
    /\ event.payload.items[1].port = 8080
    /\ event.payload.items[2].port = 80
    /\ Len(log) = 5
    /\ log[1].arg = "/etc/apache2/sites-available/web_8080.conf"
    /\ log[1].data = "Listen 8080"
    /\ log[5].arg = "reload"

C8_AlreadyDisabledSucceeds ==
    [][(/\ pc = "disable"
        /\ Len(log') > Len(log)
        /\ log'[Len(log) + 1].rc \in {OffByAdmin, OffByMaintainer}) =>
          LET m == log'[Len(log) + 1].arg IN
          /\ log' = Append(log, Cmd("a2query", m, "", log'[Len(log) + 1].rc))
          /\ m \in state.current_modules
          /\ state'.current_modules = state.current_modules \ {m}
          /\ outcome' = "running"
          /\ pc' # "done"]_vars

\* a module found OffByMaintainer has been removed by a pass
C8_Witness ==
    /\ InPass
    /\ \E i \in Positions("a2query") :
         /\ log[i].rc = OffByMaintainer
         /\ log[i].arg \in base_modules
         /\ log[i].arg \notin state.current_modules
         /\ (i < Len(log) => log[i + 1].cmd # "a2dismod")

\* ---------------------------------------------------------------------- C9
\* C9: disabling a module that a2query reports NotFound raises
\* ApacheModuleDisableException without running a2dismod, and the module is
\* still in current_modules after the aborted pass.
C9_NotFoundRaises ==
    [][(/\ pc = "disable"
        /\ Len(log') > Len(log)
        /\ log'[Len(log) + 1].rc = NotFound) =>
          LET m == log'[Len(log) + 1].arg IN
          /\ log' = Append(log, Cmd("a2query", m, "", NotFound))
          /\ outcome' = "ApacheModuleDisableException"
          /\ pc' = "done"
          /\ m \in state'.current_modules
          /\ state' = state]_vars

\* a pass has been aborted by a module that was not found
C9_Witness ==
    /\ PassEnded
    /\ outcome = "ApacheModuleDisableException"
    /\ log[Len(log)].cmd = "a2query"
    /\ log[Len(log)].rc = NotFound
    /\ log[Len(log)].arg \in state.current_modules

\* --------------------------------------------------------------------- C10
\* the modules enabled at the service after the first k commands of the
\* pass (every intermediate point of a pass is a state, with k = Len(log)),
\* for a service that had the modules of C enabled when the pass
\* began: a module probed as not enabled or disabled by a2dismod is off, a
\* module enabled by a2enmod is on
RECURSIVE EnabledAfter(_)
EnabledAfter(k) ==
    IF k = 0 THEN base_modules
    ELSE LET before == EnabledAfter(k - 1)
             c == log[k]
         IN
         IF c.cmd = "a2query" /\ c.rc # Found THEN before \ {c.arg}
         ELSE IF c.cmd = "a2dismod" /\ c.rc = 0 THEN before \ {c.arg}
         ELSE IF c.cmd = "a2enmod" /\ c.rc = 0 THEN before \cup {c.arg}
         ELSE before

\* the disable of module m has completed within the first k commands
DisableCompleted(m, k) ==
    \E j \in 1..k :
        /\ log[j].arg = m
        /\ \/ log[j].cmd = "a2query" /\ log[j].rc \in {OffByAdmin, OffByMaintainer}
           \/ log[j].cmd = "a2dismod" /\ log[j].rc = 0

\* C10: within a pass every disable of a module of C \ D is attempted and
\* completed before the first enable command; so the modules enabled at the
\* service stay within C until the disables are done, and no module of
\* D \ C is enabled while a module of C \ D is still enabled.
C10_DisablesBeforeEnables ==
    InPass =>
        /\ \A i \in Positions("a2enmod") :
             /\ \A j \in Positions("a2query") \cup Positions("a2dismod") : j < i
             /\ \A m \in base_modules \ config_modules : DisableCompleted(m, i - 1)
        /\ LET on == EnabledAfter(Len(log)) IN
             /\ (on \cap (base_modules \ config_modules) # {}) => on \subseteq base_modules
             /\ ~(/\ on \cap (config_modules \ base_modules) # {}
                  /\ on \cap (base_modules \ config_modules) # {})
        /\ (modules_to_disable # {}) => state.current_modules \subseteq base_modules

\* a pass that disabled two modules and then enabled a new one
C10_Witness ==
    /\ InPass
    /\ Cardinality(base_modules \ config_modules) = 2
    /\ Cardinality(Positions("a2dismod")) >= 1
    /\ \E i \in Positions("a2enmod") :
         /\ log[i].arg \in config_modules \ base_modules
         /\ log[i].rc = 0
         /\ log[i].arg \in state.current_modules

\* --------------------------------------------------------------------- C11
\* C11: an event deferred at the ready gate is never dropped: it is queued,
\* it leaves the queue only by being delivered again while ready is true,
\* and with fair re-delivery it does leave the queue unless ready turns
\* false; an event is given up without deferral and without an error only
\* when it has no peer or no vhosts.  A delivery that passes the three gates
\* goes on to the activations and the reload (C6).
C11_DeferredNeverDropped ==
    /\ [][(VhostDelivery /\ HasAttr("ready") /\ ~state.ready) =>
            /\ deferred' # <<>>
            /\ deferred'[Len(deferred')] = event'.unit
            /\ Len(deferred') >= Len(deferred)]_vars
    /\ [][Len(deferred') < Len(deferred) =>
            /\ VhostDelivery
            /\ Ready
            /\ event'.redelivered
            /\ event'.unit = Head(deferred)
            /\ deferred' = Tail(deferred)]_vars
    /\ [][(VhostDelivery /\ pc' = "done" /\ outcome' = "returned" /\ log' = <<>>) =>
            /\ Ready
            /\ ~event'.unit \/ event'.payload.kind \in {"absent", "empty"}]_vars
    /\ [][(VhostDelivery /\ Ready /\ event'.unit /\ event'.payload.kind = "yaml") =>
            /\ outcome' = "running"
            /\ vhosts' = event'.payload.items
            /\ pc' \in {"sites", "reload"}]_vars
    /\ (deferred # <<>>) ~> (deferred = <<>> \/ ~Ready)

\* a deferred event has been delivered again, has passed the gates and its
\* vhosts have been activated and reloaded
C11_Witness ==
    /\ handler = "on_vhost_config_relation_changed"
    /\ event.redelivered
    /\ pc = "done"
    /\ outcome = "returned"
    /\ Len(vhosts) >= 1
    /\ Cardinality(Positions("a2ensite")) = Len(vhosts)
    /\ SystemctlPositions("reload") # {}

\* --------------------------------------------------------------------- C12
\* the modules whose disable succeeded and whose enable succeeded in the pass
DisablesSucceeded == {m \in Modules : DisableCompleted(m, Len(log))}

EnablesSucceeded == {log[i].arg : i \in {j \in Positions("a2enmod") : log[j].rc = 0}}

\* position i of the log is a disable that failed
DisableFailedAt(i) ==
    \/ log[i].cmd = "a2dismod" /\ log[i].rc # 0
    \/ log[i].cmd = "a2query" /\ log[i].rc = NotFound

\* C12: at every point of a pass, and so when it has ended, returned or
\* aborted, current_modules is the set the pass started from minus the
\* modules whose disable succeeded plus the modules whose enable succeeded;
\* a module whose enable failed is not added, a module whose disable failed
\* is not removed, and the desired set is never stored as a whole.
C12_ModuleAtATimeCommit ==
    InPass =>
        /\ state.current_modules = (base_modules \ DisablesSucceeded) \cup EnablesSucceeded
        /\ \A i \in Positions("a2enmod") :
             log[i].rc # 0 => (log[i].arg \in state.current_modules <=> log[i].arg \in base_modules)
        /\ \A i \in 1..Len(log) :
             DisableFailedAt(i) => log[i].arg \in state.current_modules

\* a pass aborted by a failed enable after a disable and an enable that
\* succeeded: current_modules is neither the starting nor the desired set
C12_Witness ==
    /\ PassEnded
    /\ outcome = "ApacheModuleEnableException"
    /\ DisablesSucceeded \cap base_modules # {}
    /\ EnablesSucceeded \ base_modules # {}
    /\ log[Len(log)].arg \notin state.current_modules
    /\ state.current_modules # config_modules
    /\ state.current_modules # base_modules

\* --------------------------------------------------------------------- C13
\* C13: a failed disable is the last thing a pass does: the pass has ended
\* with ApacheModuleDisableException, no enable, restart or readiness probe
\* has run, ready is what it was, the modules disabled before stay removed
\* and the module whose disable failed stays in current_modules.
C13_DisableFailureAborts ==
    InPass =>
        \A i \in 1..Len(log) :
            DisableFailedAt(i) =>
                /\ i = Len(log)
                /\ pc = "done"
                /\ outcome = "ApacheModuleDisableException"
                /\ Positions("a2enmod") = {}
                /\ SystemctlPositions("restart") = {}
                /\ Positions("is-active") = {}
                /\ Positions("emit") = {}
                /\ ReadyText = base_ready
                /\ state.current_modules = base_modules \ DisablesSucceeded
                /\ log[i].arg \in modules_to_disable

\* a pass with a module to enable whose second disable failed after the
\* first had removed its module
C13_Witness ==
    /\ PassEnded
    /\ outcome = "ApacheModuleDisableException"
    /\ DisableFailedAt(Len(log))
    /\ \E j \in Positions("a2dismod") : log[j].rc = 0 /\ log[j].arg \notin state.current_modules
    /\ config_modules # {}
    /\ state.current_modules # base_modules

\* --------------------------------------------------------------------- C14
\* C14: every readiness probe of a pass that finds the service active is
\* followed by exactly one apache_ready event and leaves ready true and the
\* status Active, whatever ready was before; every probe that finds it
\* inactive leaves ready false and emits nothing.  A pass that returns has
\* made exactly one probe, after its toggles and after the restart, which
\* was run and succeeded when it was due.
C14_LevelTriggeredAssessment ==
    InPass =>
        /\ \A i \in Positions("is-active") :
             /\ pc = "done"
             /\ outcome = "returned"
             /\ \A j \in TogglePositions \cup SystemctlPositions("restart") : j < i
             /\ IF log[i].rc = 0
                  THEN /\ Len(log) = i + 1
                       /\ log[i + 1].cmd = "emit"
                       /\ Cardinality(Positions("emit")) = 1
                       /\ Ready
                       /\ unit_status = "Active"
                  ELSE /\ Len(log) = i
                       /\ Positions("emit") = {}
                       /\ HasAttr("ready")
                       /\ ~state.ready
        /\ Positions("emit") # {} => Positions("is-active") # {}
        /\ (PassEnded /\ outcome = "returned") =>
             /\ Cardinality(Positions("is-active")) = 1
             /\ RestartNeeded(changed_modules) =>
                  \E r \in SystemctlPositions("restart") : log[r].rc = 0

\* a pass that began with ready true, restarted the service, probed it as
\* active and emitted apache_ready again
C14_Witness ==
    /\ PassEnded
    /\ outcome = "returned"
    /\ base_ready = "true"
    /\ SystemctlPositions("restart") # {}
    /\ Positions("emit") # {}
    /\ Ready

\* --------------------------------------------------------------------- C15
\* position i of the log is a vhost file write or an a2ensite that failed
SiteFailedAt(i) == log[i].cmd \in {"write", "a2ensite"} /\ log[i].rc # 0

\* C15: a failed write or a2ensite of the k-th vhost is the last thing the
\* handler does: it has ended with the error, k files have been written or
\* tried and no more, the k-1 vhosts before are activated and no a2dissite
\* has been run, no reload has been issued and the event has not been
\* deferred.
C15_SiteFailureAborts ==
    handler = "on_vhost_config_relation_changed" =>
        \A i \in 1..Len(log) :
            SiteFailedAt(i) =>
                /\ i = Len(log)
                /\ pc = "done"
                /\ outcome = IF log[i].cmd = "write" THEN "OSError"
                             ELSE "ApacheSiteEnableException"
                /\ vhost_index < Len(vhosts)
                /\ Cardinality(Positions("write")) = vhost_index + 1
                /\ \A j \in 1..vhost_index :
                     /\ log[2 * j - 1].cmd = "write" /\ log[2 * j - 1].rc = 0
                     /\ log[2 * j].cmd = "a2ensite" /\ log[2 * j].rc = 0
                     /\ log[2 * j].arg = VhostName(server_name, vhosts[j].port)
                /\ Positions("a2dissite") = {}
                /\ SystemctlPositions("reload") = {}
                /\ Positions("defer") = {}

\* a batch of two whose second activation failed after the first had
\* succeeded
C15_Witness ==
    /\ handler = "on_vhost_config_relation_changed"
    /\ pc = "done"
    /\ outcome = "ApacheSiteEnableException"
    /\ Len(vhosts) = 2
    /\ vhost_index = 1
    /\ log[2].cmd = "a2ensite" /\ log[2].rc = 0
    /\ SiteFailedAt(Len(log))
    /\ SystemctlPositions("reload") = {}

\* --------------------------------------------------------------------- C16
\* C16: with ready set, a delivery is deferred exactly when ready is false,
\* whatever its peer and payload; with ready true and no peer it returns
\* with nothing done whatever the payload holds; with ready true, a peer
\* and no vhosts it returns with nothing done.  None of the three ends in
\* an error or runs a command, and the stored state is left alone.
C16_GateOrder ==
    [][(VhostDelivery /\ HasAttr("ready")) =>
         /\ ~state.ready =>
              /\ log' = <<Cmd("defer", "vhost_config_relation_changed", "", 0)>>
              /\ deferred' # <<>>
              /\ deferred'[Len(deferred')] = event'.unit
         /\ (state.ready /\ ~event'.unit) =>
              /\ log' = <<>>
              /\ deferred' = IF event'.redelivered THEN Tail(deferred) ELSE deferred
         /\ (state.ready /\ event'.unit /\ ~Truthy(event'.payload)) =>
              /\ log' = <<>>
              /\ deferred' = IF event'.redelivered THEN Tail(deferred) ELSE deferred
         /\ (log' # <<>>) => ~state.ready
         /\ (~state.ready \/ ~event'.unit \/ ~Truthy(event'.payload)) =>
              /\ pc' = "done"
              /\ outcome' = "returned"
              /\ vhosts' = vhosts /\ vhost_index' = vhost_index
              /\ state' = state
              /\ unit_status' = unit_status
              /\ last_service_event' = last_service_event]_vars

\* an event without a peer and with vhosts in its payload that met ready
\* false and was deferred
C16_Witness ==
    /\ handler = "on_vhost_config_relation_changed"
    /\ pc = "done"
    /\ outcome = "returned"
    /\ ~event.unit
    /\ event.payload.kind = "yaml"
    /\ HasAttr("ready") /\ ~state.ready
    /\ Positions("defer") # {}
    /\ deferred # <<>>

\* --------------------------------------------------------------------- C17
\* C17: once on_install has run, current_modules is empty and ready is
\* false, and no vhost event ends on an undefined ready: an event that
\* comes before the first pass is deferred.
C17_InstallInitialisesReady ==
    /\ (handler = "on_install" /\ pc = "done") =>
         /\ HasAttr("current_modules") /\ state.current_modules = {}
         /\ HasAttr("ready") /\ ~state.ready
    /\ handler = "on_vhost_config_relation_changed" =>
         /\ outcome # "AttributeError"
         /\ ~HasAttr("ready") => Positions("defer") # {}

\* --------------------------------------------------------------------- C18
\* C18: a pass that returns and is a retry, that is, the pass before it had
\* the same desired set and raised with toggles applied that no restart has
\* followed, has issued a restart that succeeded.
C18_RetryRestarts ==
    (PassEnded /\ outcome = "returned" /\ retry) =>
        \E r \in SystemctlPositions("restart") : log[r].rc = 0

\* --------------------------------------------------------------------- C19
\* C19: whenever the unit status is Active, ready is set and true.
C19_ActiveImpliesReady == unit_status = "Active" => Ready
====
